---- MODULE Spec2Model ----
(***************************************************************************)
(* Model of src/bw/config.rs: the configuration of the black-widow daemon. *)
(*                                                                         *)
(*   - toml::from_str::<Config> as the serde derive attributes direct it    *)
(*     (untagged AuthConfig and FileOrValue, internally tagged             *)
(*     NetworkConfig, the field defaults);                                 *)
(*   - FileOrValue::get_value / FileOrValue::load against a file system    *)
(*     the environment may change at any moment;                           *)
(*   - Config::load, one step per statement, so that the environment can   *)
(*     act between two statements.                                         *)
(*                                                                         *)
(* Rust Strings are sequences of one-character strings, Bytes are          *)
(* sequences of 0..255, Option<T> is a sequence of length 0 or 1.          *)
(***************************************************************************)
EXTENDS Integers, Sequences, FiniteSets, TLC

VARIABLES
    doc,        \* the document handed to toml::from_str
    parsed,     \* what toml::from_str returned for doc
    config,     \* the Config value the caller holds
    fs,         \* the file system: path -> missing or a file's bytes
    pc,         \* position of the caller: idle, inside Config::load, aborted
    ret,        \* how the most recent call ended
    trace,      \* statements of Config::load executed by the latest call
    pre,        \* config, files and counters when the latest Config::load began
    loaded,     \* the FileOrValue instances on which load() has returned Ok
    opens,      \* per FileOrValue instance: File::open calls made
    reads,      \* per FileOrValue instance: files read to the end
    decodes,    \* per FileOrValue instance: base64::decode calls made
    okLoads,    \* Config::load calls that returned Ok
    calls,      \* calls made by the caller so far
    writes      \* changes the environment made to the file system so far

vars == <<doc, parsed, config, fs, pc, ret, trace, pre, loaded, opens, reads,
          decodes, okLoads, calls, writes>>

----------------------------------------------------------------------------
(* Bounds of the model *)

MaxCalls == 2
MaxWrites == 1
MaxNetworks == 2

----------------------------------------------------------------------------
(* Option, Bytes, String *)

None == <<>>
Some(x) == <<x>>
IsSome(o) == Len(o) = 1
Unwrap(o) == o[1]

RECURSIVE Rep(_, _)
Rep(s, n) == IF n = 0 THEN <<>> ELSE s \o Rep(s, n - 1)

B64Alphabet ==
    <<"A","B","C","D","E","F","G","H","I","J","K","L","M","N","O","P",
      "Q","R","S","T","U","V","W","X","Y","Z","a","b","c","d","e","f",
      "g","h","i","j","k","l","m","n","o","p","q","r","s","t","u","v",
      "w","x","y","z","0","1","2","3","4","5","6","7","8","9","+","/">>

IsB64(c) == \E i \in 1..Len(B64Alphabet) : B64Alphabet[i] = c
SextetOf(c) == (CHOOSE i \in 1..Len(B64Alphabet) : B64Alphabet[i] = c) - 1

\* String::into_bytes on the characters the documents use.
AsciiOf(c) ==
    IF IsB64(c)
    THEN LET s == SextetOf(c)
         IN  IF s < 26 THEN 65 + s
             ELSE IF s < 52 THEN 97 + (s - 26)
             ELSE IF s < 62 THEN 48 + (s - 52)
             ELSE IF s = 62 THEN 43 ELSE 47
    ELSE IF c = "=" THEN 61
    ELSE IF c = "!" THEN 33
    ELSE IF c = "." THEN 46
    ELSE IF c = ":" THEN 58
    ELSE 63

IntoBytes(str) == [i \in 1..Len(str) |-> AsciiOf(str[i])]

\* base64::decode: the trailing padding is dropped, every other symbol has
\* to be of the alphabet, a lone trailing symbol is an invalid length, and
\* every 4 symbols give 3 bytes.
PadLen(text) ==
    IF Len(text) >= 2 /\ text[Len(text)] = "=" /\ text[Len(text) - 1] = "="
    THEN 2
    ELSE IF Len(text) >= 1 /\ text[Len(text)] = "=" THEN 1 ELSE 0

B64Body(text) == SubSeq(text, 1, Len(text) - PadLen(text))

B64Valid(text) ==
    LET body == B64Body(text)
    IN  /\ \A i \in 1..Len(body) : IsB64(body[i])
        /\ Len(body) % 4 # 1

B64Bytes(text) ==
    LET body == B64Body(text)
        n == (Len(body) * 6) \div 8
        ByteAt(k) ==
            LET j == ((8 * k) \div 6) + 1
                off == (8 * k) % 6
                v == SextetOf(body[j]) * 64 + SextetOf(body[j + 1])
            IN  IF off = 0 THEN (v \div 16) % 256
                ELSE IF off = 2 THEN (v \div 4) % 256
                ELSE v % 256
    IN  [k \in 1..n |-> ByteAt(k - 1)]

Base64Decode(text) ==
    IF B64Valid(text)
    THEN [ok |-> TRUE, bytes |-> B64Bytes(text)]
    ELSE [ok |-> FALSE, bytes |-> <<>>]

----------------------------------------------------------------------------
(* Ed25519KeyPair::from_seed_unchecked and public_key_bytes: the seed has   *)
(* to be SeedLen bytes; the public key is a function of the seed, kept      *)
(* symbolic: an injective byte-wise image of the seed, so that distinct     *)
(* seeds give distinct keys and no key equals its seed.                     *)

SeedLen == 32

FromSeedUnchecked(bytes) ==
    IF Len(bytes) = SeedLen
    THEN [ok |-> TRUE, public_key |-> [i \in 1..Len(bytes) |-> 255 - bytes[i]]]
    ELSE [ok |-> FALSE, public_key |-> <<>>]

----------------------------------------------------------------------------
(* TOML values, as toml::from_str hands them to the derived Deserialize     *)
(* implementations.                                                         *)

StrV(s) == [t |-> "str", s |-> s]
IntV(n) == [t |-> "int", n |-> n]
ArrV(a) == [t |-> "array", a |-> a]
TblV(f) == [t |-> "table", f |-> f]

Has(v, k) == v.t = "table" /\ k \in DOMAIN v.f
HasStr(v, k) == Has(v, k) /\ v.f[k].t = "str"

ParseOk(v) == [ok |-> TRUE, v |-> v]
ParseErr(e) == [ok |-> FALSE, err |-> e]

\* #[serde(untagged)] enum FileOrValue: the variants are tried in the order
\* they are declared, File first; the cache field is skipped.
ParseFileOrValue(v) ==
    IF HasStr(v, "file")
    THEN ParseOk([variant |-> "File", file |-> v.f.file.s, cache |-> None])
    ELSE IF HasStr(v, "value")
    THEN ParseOk([variant |-> "Value", value |-> v.f.value.s, cache |-> None])
    ELSE ParseErr("data did not match any variant of untagged enum FileOrValue")

ParseSharedSecretConfig(v) ==
    IF v.t # "table" THEN ParseErr("invalid type")
    ELSE IF ~Has(v, "secret") THEN ParseErr("missing field secret")
    ELSE IF v.f.secret.t # "str" THEN ParseErr("invalid type")
    ELSE ParseOk([variant |-> "SharedSecretConfig", cache |-> None,
                  secret |-> v.f.secret.s])

ParseCertificateAuthorityConfig(v) ==
    IF v.t # "table" THEN ParseErr("invalid type")
    ELSE IF ~Has(v, "signature") THEN ParseErr("missing field signature")
    ELSE IF ~ParseFileOrValue(v.f.signature).ok
    THEN ParseFileOrValue(v.f.signature)
    ELSE IF ~Has(v, "ca") THEN ParseErr("missing field ca")
    ELSE IF ~ParseFileOrValue(v.f.ca).ok THEN ParseFileOrValue(v.f.ca)
    ELSE ParseOk([variant |-> "CertificateAuthorityConfig",
                  signature |-> ParseFileOrValue(v.f.signature).v,
                  ca |-> ParseFileOrValue(v.f.ca).v])

\* #[serde(untagged)] enum AuthConfig: SharedSecretConfig is tried first and
\* the first variant that deserializes is taken; fields a variant does not
\* name are ignored.
ParseAuthConfig(v) ==
    IF ParseSharedSecretConfig(v).ok THEN ParseSharedSecretConfig(v)
    ELSE IF ParseCertificateAuthorityConfig(v).ok
    THEN ParseCertificateAuthorityConfig(v)
    ELSE ParseErr("data did not match any variant of untagged enum AuthConfig")

\* The socket addresses "ip:port" the documents use that SocketAddr parses.
ValidSocketAddrs == { <<"1",".","2",".","3",".","4",":","1","2","4">> }

\* #[serde(tag = "type")] enum NetworkConfig: the `type` field names the
\* variant; DnsNetworkConfig needs `domain`, PeersNetworkConfig defaults
\* `peers` to the empty list.
ParseNetworkConfig(v) ==
    IF v.t # "table" THEN ParseErr("invalid type")
    ELSE IF ~Has(v, "type") THEN ParseErr("missing field type")
    ELSE IF v.f.type.t # "str" THEN ParseErr("invalid type")
    ELSE IF v.f.type.s = <<"d","n","s">>
    THEN IF ~Has(v, "domain") THEN ParseErr("missing field domain")
         ELSE IF v.f.domain.t # "str" THEN ParseErr("invalid type")
         ELSE ParseOk([variant |-> "DnsNetworkConfig", domain |-> v.f.domain.s])
    ELSE IF v.f.type.s = <<"p","e","e","r","s">>
    THEN IF ~Has(v, "peers")
         THEN ParseOk([variant |-> "PeersNetworkConfig", peers |-> <<>>])
         ELSE IF v.f.peers.t # "array" THEN ParseErr("invalid type")
         ELSE IF \E i \in 1..Len(v.f.peers.a) :
                    \/ v.f.peers.a[i].t # "str"
                    \/ v.f.peers.a[i].s \notin ValidSocketAddrs
         THEN ParseErr("invalid socket address syntax")
         ELSE ParseOk([variant |-> "PeersNetworkConfig",
                       peers |-> [i \in 1..Len(v.f.peers.a) |-> v.f.peers.a[i].s]])
    ELSE ParseErr("unknown variant, expected dns or peers")

\* Vec<NetworkConfig> with the elements pushed in front of one another.
ParseNetworks_reversed(v) ==
    IF v.t # "array" THEN ParseErr("invalid type")
    ELSE IF \E i \in 1..Len(v.a) : ~ParseNetworkConfig(v.a[i]).ok
    THEN ParseErr("invalid element")
    ELSE ParseOk([i \in 1..Len(v.a) |->
                    ParseNetworkConfig(v.a[Len(v.a) + 1 - i]).v])

\* Vec<NetworkConfig>: every element is deserialized, in order; the first
\* failure fails the whole sequence.
ParseNetworks(v) ==
    IF v.t # "array" THEN ParseErr("invalid type")
    ELSE IF \E i \in 1..Len(v.a) : ~ParseNetworkConfig(v.a[i]).ok
    THEN ParseNetworkConfig(
            v.a[CHOOSE i \in 1..Len(v.a) :
                    /\ ~ParseNetworkConfig(v.a[i]).ok
                    /\ \A j \in 1..(i - 1) : ParseNetworkConfig(v.a[j]).ok])
    ELSE ParseOk([i \in 1..Len(v.a) |-> ParseNetworkConfig(v.a[i]).v])

default_threads == 2
default_port == 0
default_mtu == 1400
U8Max == 255
U16Max == 65535

ServerConfigDefault == [threads |-> default_threads, port |-> default_port]

ParseServerConfig(v) ==
    IF v.t # "table" THEN ParseErr("invalid type")
    ELSE IF Has(v, "threads") /\
            (v.f.threads.t # "int" \/ v.f.threads.n \notin 0..U8Max)
    THEN ParseErr("invalid value for u8")
    ELSE IF Has(v, "port") /\
            (v.f.port.t # "int" \/ v.f.port.n \notin 0..U16Max)
    THEN ParseErr("invalid value for u16")
    ELSE ParseOk([threads |-> IF Has(v, "threads") THEN v.f.threads.n
                              ELSE default_threads,
                  port |-> IF Has(v, "port") THEN v.f.port.n
                           ELSE default_port])

InterfaceConfigDefault ==
    [mode |-> "Tap", name |-> <<"b","w","%","d">>, mtu |-> default_mtu]

RouterConfigDefault == [name |-> "Dumb"]

\* #[derive(Deserialize)] struct Config: key, network-id and auth are
\* required; server and network default; public_key and cached_network_id
\* are skipped and start at their defaults. The interface and router
\* sections are taken at their defaults.
ParseConfig(d) ==
    IF d.t # "table" THEN ParseErr("invalid type")
    ELSE IF ~Has(d, "key") THEN ParseErr("missing field key")
    ELSE IF ~ParseFileOrValue(d.f.key).ok THEN ParseFileOrValue(d.f.key)
    ELSE IF ~Has(d, "network-id") THEN ParseErr("missing field network-id")
    ELSE IF d.f["network-id"].t # "str" THEN ParseErr("invalid type")
    ELSE IF Has(d, "server") /\ ~ParseServerConfig(d.f.server).ok
    THEN ParseServerConfig(d.f.server)
    ELSE IF ~Has(d, "auth") THEN ParseErr("missing field auth")
    ELSE IF ~ParseAuthConfig(d.f.auth).ok THEN ParseAuthConfig(d.f.auth)
    ELSE IF Has(d, "network") /\ ~ParseNetworks(d.f.network).ok
    THEN ParseNetworks(d.f.network)
    ELSE ParseOk(
        [key |-> ParseFileOrValue(d.f.key).v,
         public_key |-> <<>>,
         cached_network_id |-> None,
         network_id |-> d.f["network-id"].s,
         server |-> IF Has(d, "server") THEN ParseServerConfig(d.f.server).v
                    ELSE ServerConfigDefault,
         auth |-> ParseAuthConfig(d.f.auth).v,
         networks |-> IF Has(d, "network") THEN ParseNetworks(d.f.network).v
                      ELSE <<>>,
         interface |-> InterfaceConfigDefault,
         router |-> RouterConfigDefault])

----------------------------------------------------------------------------
(* The file system and FileOrValue *)

Missing == [kind |-> "missing", bytes |-> <<>>]
FileOf(b) == [kind |-> "file", bytes |-> b]

AllInsts == {"key", "signature", "ca"}

\* The FileOrValue instances a Config owns.
Insts(cfg) ==
    IF cfg.auth.variant = "CertificateAuthorityConfig"
    THEN {"key", "signature", "ca"}
    ELSE {"key"}

Fov(cfg, i) ==
    IF i = "key" THEN cfg.key
    ELSE IF i = "signature" THEN cfg.auth.signature
    ELSE cfg.auth.ca

WithFov(cfg, i, f) ==
    IF i = "key" THEN [cfg EXCEPT !.key = f]
    ELSE IF i = "signature" THEN [cfg EXCEPT !.auth.signature = f]
    ELSE [cfg EXCEPT !.auth.ca = f]

IsFile(f) == f.variant = "File"

Result(outcome, err, val, opened, read, decoded) ==
    [outcome |-> outcome, err |-> err, val |-> val,
     opened |-> opened, read |-> read, decoded |-> decoded]

\* FileOrValue::get_value with the cache ignored for a File.
get_value_uncached(f, files) ==
    IF f.variant = "Value"
    THEN IF IsSome(f.cache)
         THEN Result("Ok", "", Unwrap(f.cache), 0, 0, 0)
         ELSE IF Base64Decode(f.value).ok
         THEN Result("Ok", "", Base64Decode(f.value).bytes, 0, 0, 1)
         ELSE Result("panic", "decode", <<>>, 0, 0, 1)
    ELSE IF f.file \notin DOMAIN files \/ files[f.file].kind = "missing"
    THEN Result("Err", "IoError", <<>>, 1, 0, 0)
    ELSE Result("Ok", "", files[f.file].bytes, 1, 1, 0)

\* FileOrValue::get_value(&self): a cached value is returned as it is; an
\* inline value is decoded and the decoder's error unwrapped (a panic); a
\* file is opened and read to its end, an error of either returned.
get_value(f, files) ==
    IF f.variant = "Value"
    THEN IF IsSome(f.cache)
         THEN Result("Ok", "", Unwrap(f.cache), 0, 0, 0)
         ELSE IF Base64Decode(f.value).ok
         THEN Result("Ok", "", Base64Decode(f.value).bytes, 0, 0, 1)
         ELSE Result("panic", "decode", <<>>, 0, 0, 1)
    ELSE IF IsSome(f.cache)
    THEN Result("Ok", "", Unwrap(f.cache), 0, 0, 0)
    ELSE IF f.file \notin DOMAIN files \/ files[f.file].kind = "missing"
    THEN Result("Err", "IoError", <<>>, 1, 0, 0)
    ELSE Result("Ok", "", files[f.file].bytes, 1, 1, 0)

\* FileOrValue::load with the value stored whatever get_value returned.
FileOrValue_load_always(f, files) ==
    [self |-> [f EXCEPT !.cache = Some(get_value(f, files).val)],
     result |-> get_value(f, files)]

\* FileOrValue::load that drops the cache and resolves the source anew.
FileOrValue_load_refresh(f, files) ==
    LET r == get_value([f EXCEPT !.cache = None], files)
    IN  [self |-> IF r.outcome = "Ok" THEN [f EXCEPT !.cache = Some(r.val)] ELSE f,
         result |-> r]

\* FileOrValue::load(&mut self): the instance after the call and how the
\* call ended; `?` returns get_value's error before the cache is written.
FileOrValue_load(f, files) ==
    LET r == get_value(f, files)
    IN  [self |-> IF r.outcome = "Ok" THEN [f EXCEPT !.cache = Some(r.val)] ELSE f,
         result |-> r]

\* Config::get_network_id
get_network_id(cfg) ==
    IF IsSome(cfg.cached_network_id)
    THEN Unwrap(cfg.cached_network_id)
    ELSE IntoBytes(cfg.network_id)

\* SharedSecretConfig::get_secret
get_secret(c) ==
    IF IsSome(c.cache) THEN Unwrap(c.cache) ELSE IntoBytes(c.secret)

\* SharedSecretConfig::load
SharedSecretConfig_load(c) == [c EXCEPT !.cache = Some(get_secret(c))]

\* Config::get_key_pair: both the key's value and the key pair are
\* unwrapped, so an unreadable file, an undecodable text and a seed of the
\* wrong length all panic.
get_key_pair(cfg, files) ==
    LET r == get_value(cfg.key, files)
    IN  IF r.outcome = "panic" THEN [outcome |-> "panic", err |-> r.err,
                                     public_key |-> <<>>]
        ELSE IF r.outcome = "Err" THEN [outcome |-> "panic", err |-> "io",
                                        public_key |-> <<>>]
        ELSE IF ~FromSeedUnchecked(r.val).ok
        THEN [outcome |-> "panic", err |-> "seed", public_key |-> <<>>]
        ELSE [outcome |-> "Ok", err |-> "",
              public_key |-> FromSeedUnchecked(r.val).public_key]

----------------------------------------------------------------------------
(* Documents, seeds and file contents the model draws from *)

SeedA == [i \in 1..SeedLen |-> 1]
SeedB == [i \in 1..SeedLen |-> 2]

\* The base64 text of SeedA (ten groups of three bytes and a padded group
\* of two), a text that decodes to three bytes, and a text that is no base64.
TextA == Rep(<<"A","Q","E","B">>, 10) \o <<"A","Q","E","=">>
TextShort == <<"A","Q","E","B">>
TextBad == <<"!","!","!","!">>

Help == <<"h","e","l","p">>
KeyPath == <<"k">>
SigPath == <<"s">>
CaPath == <<"c">>

Contents == {Missing, FileOf(SeedA), FileOf(SeedB)}

EmptyTable == [x \in {} |-> x]
Opt(k, o) == IF o = <<>> THEN EmptyTable ELSE (k :> o[1])

FileDoc(path) == TblV([file |-> StrV(path)])
ValueDoc(text) == TblV([value |-> StrV(text)])

AuthDoc(secret, signature, ca) ==
    TblV(Opt("secret", secret) @@ Opt("signature", signature) @@ Opt("ca", ca))

ConfigDoc(key, server, auth, network) ==
    TblV(Opt("key", key) @@ ("network-id" :> StrV(Help)) @@ Opt("server", server)
         @@ Opt("auth", auth) @@ Opt("network", network))

NetworkDocs ==
    { TblV([type |-> StrV(<<"d","n","s">>),
            domain |-> StrV(<<"z","e","r",".","o","o","o">>)]),
      TblV([type |-> StrV(<<"d","n","s">>)]),
      TblV([type |-> StrV(<<"p","e","e","r","s">>),
            peers |-> ArrV(<< StrV(<<"1",".","2",".","3",".","4",":","1","2","4">>) >>)]),
      TblV([type |-> StrV(<<"p","e","e","r","s">>)]),
      TblV([type |-> StrV(<<"p","i","g","e","o","n">>),
            domain |-> StrV(<<"z","e","r",".","o","o","o">>)]) }

NetworkSeqs == UNION { [1..n -> NetworkDocs] : n \in 0..MaxNetworks }

ServerDocs ==
    { <<>>, <<TblV(EmptyTable)>>, <<TblV([threads |-> IntV(4)])>>,
      <<TblV([threads |-> IntV(U8Max + 1)])>> }

AuthDocs ==
    { <<>> } \cup
    { <<AuthDoc(secret, signature, ca)>> :
        secret \in { <<>>, <<StrV(Help)>>, <<IntV(1)>> },
        signature \in { <<>>, <<FileDoc(SigPath)>>, <<ValueDoc(TextA)>> },
        ca \in { <<>>, <<FileDoc(CaPath)>> } }

\* The documents toml::from_str is applied to.
Docs ==
    { ConfigDoc(key, server, auth, network) :
        key \in { <<>>, <<FileDoc(KeyPath)>>, <<ValueDoc(TextA)>> },
        server \in ServerDocs,
        auth \in AuthDocs,
        network \in { <<>> } \cup { <<ArrV(n)>> : n \in NetworkSeqs } }

\* The documents of the configurations that are loaded: a file-backed key
\* with each kind of auth section, and each kind of inline key.
LoadDocs ==
    { ConfigDoc(<<FileDoc(KeyPath)>>, <<>>, <<auth>>, <<>>) :
        auth \in { AuthDoc(<<StrV(Help)>>, <<>>, <<>>),
                   AuthDoc(<<>>, <<FileDoc(SigPath)>>, <<FileDoc(CaPath)>>),
                   AuthDoc(<<>>, <<FileDoc(SigPath)>>, <<ValueDoc(TextBad)>>) } }
    \cup
    { ConfigDoc(<<ValueDoc(text)>>, <<>>, <<AuthDoc(<<StrV(Help)>>, <<>>, <<>>)>>, <<>>) :
        text \in { TextA, TextShort, TextBad } }

PathsOf(cfg) ==
    { Fov(cfg, i).file : i \in { j \in Insts(cfg) : IsFile(Fov(cfg, j)) } }

----------------------------------------------------------------------------
(* State *)

Zero == [i \in AllInsts |-> 0]
\* How a call ended; for get_value, `at` is the number of file system
\* changes made before it returned.
NoRet ==
    [op |-> "none", inst |-> "", outcome |-> "", err |-> "", val |-> <<>>,
     at |-> 0]
Ret(op, inst, outcome, err, val) ==
    [op |-> op, inst |-> inst, outcome |-> outcome, err |-> err, val |-> val,
     at |-> IF op = "get_value" THEN writes ELSE 0]

\* What is remembered of the latest Config::load; forgotten with the next
\* call of another function.
NoPre == [config |-> <<>>, fs |-> <<>>, opens |-> Zero, reads |-> Zero,
          okLoads |-> 0]

\* A Config as toml::from_str returned it, a file system holding the files
\* it names in any state, and no call made yet.
Init ==
    /\ doc \in LoadDocs
    /\ parsed = ParseConfig(doc)
    /\ parsed.ok
    /\ config = parsed.v
    /\ fs \in [PathsOf(config) -> Contents]
    /\ pc = "idle"
    /\ ret = NoRet
    /\ trace = <<>>
    /\ pre = NoPre
    /\ loaded = {}
    /\ opens = Zero
    /\ reads = Zero
    /\ decodes = Zero
    /\ okLoads = 0
    /\ calls = 0
    /\ writes = 0

Count(counter, i, r, field) == [counter EXCEPT ![i] = @ + r[field]]

\* The effects every call of get_value has on the counters.
Counted(i, r) ==
    /\ opens' = Count(opens, i, r, "opened")
    /\ reads' = Count(reads, i, r, "read")
    /\ decodes' = Count(decodes, i, r, "decoded")

\* The caller calls get_value() on one of the configuration's secrets.
CallGetValue(i) ==
    /\ pc = "idle"
    /\ calls < MaxCalls
    /\ i \in Insts(config)
    /\ LET r == get_value(Fov(config, i), fs)
       IN  /\ Counted(i, r)
           /\ ret' = Ret("get_value", i, r.outcome, r.err, r.val)
           /\ pc' = IF r.outcome = "panic" THEN "aborted" ELSE "idle"
    /\ calls' = calls + 1
    /\ trace' = <<>>
    /\ pre' = NoPre
    /\ UNCHANGED <<doc, parsed, config, fs, loaded, okLoads, writes>>

\* The caller calls load() on one of the configuration's secrets.
CallLoad(i) ==
    /\ pc = "idle"
    /\ calls < MaxCalls
    /\ i \in Insts(config)
    /\ LET l == FileOrValue_load(Fov(config, i), fs)
           r == l.result
       IN  /\ Counted(i, r)
           /\ config' = WithFov(config, i, l.self)
           /\ loaded' = IF r.outcome = "Ok" THEN loaded \cup {i} ELSE loaded
           /\ ret' = Ret("load", i, r.outcome, r.err, <<>>)
           /\ pc' = IF r.outcome = "panic" THEN "aborted" ELSE "idle"
    /\ calls' = calls + 1
    /\ trace' = <<>>
    /\ pre' = NoPre
    /\ UNCHANGED <<doc, parsed, fs, okLoads, writes>>

\* Where a FileOrValue::load()? inside Config::load leads: on to the next
\* statement, back to the caller with the error, or out of the program.
AfterLoad(r, next) ==
    IF r.outcome = "Ok" THEN next
    ELSE IF r.outcome = "Err" THEN "idle"
    ELSE "aborted"

\* One `x.load()?` statement of Config::load or CertificateAuthorityConfig::load
\* on the secret i: at `at`, going to `next` (the caller, with Ok, when
\* next is "idle").
LoadStatement(i, at, step, next) ==
    /\ pc = at
    /\ LET l == FileOrValue_load(Fov(config, i), fs)
           r == l.result
       IN  /\ Counted(i, r)
           /\ config' = WithFov(config, i, l.self)
           /\ loaded' = IF r.outcome = "Ok" THEN loaded \cup {i} ELSE loaded
           /\ pc' = AfterLoad(r, next)
           /\ ret' = IF r.outcome = "Ok" /\ next # "idle"
                     THEN ret
                     ELSE Ret("Config.load", i, r.outcome, r.err, <<>>)
           /\ okLoads' = IF r.outcome = "Ok" /\ next = "idle"
                         THEN okLoads + 1 ELSE okLoads
    /\ trace' = Append(trace, step)
    /\ UNCHANGED <<doc, parsed, fs, pre, calls, writes>>

\* Config::load, line 109: the caller calls load(); the key pair is derived
\* from the key's value and its public key stored.
Load109 ==
    /\ pc = "idle"
    /\ calls < MaxCalls
    /\ LET kp == get_key_pair(config, fs)
       IN  /\ Counted("key", get_value(config.key, fs))
           /\ config' = IF kp.outcome = "Ok"
                        THEN [config EXCEPT !.public_key = kp.public_key]
                        ELSE config
           /\ pc' = IF kp.outcome = "Ok" THEN "L110" ELSE "aborted"
           /\ ret' = IF kp.outcome = "Ok"
                     THEN Ret("Config.load", "", "running", "", <<>>)
                     ELSE Ret("Config.load", "key", "panic", kp.err, <<>>)
    /\ trace' = <<"identity">>
    /\ pre' = [config |-> config, fs |-> fs, opens |-> opens, reads |-> reads,
               okLoads |-> okLoads]
    /\ calls' = calls + 1
    /\ UNCHANGED <<doc, parsed, fs, loaded, okLoads, writes>>

\* Config::load, line 110: the network id's bytes are cached.
Load110 ==
    /\ pc = "L110"
    /\ config' = [config EXCEPT !.cached_network_id = Some(get_network_id(config))]
    /\ trace' = Append(trace, "network_id")
    /\ pc' = "L111"
    /\ UNCHANGED <<doc, parsed, fs, ret, pre, loaded, opens, reads, decodes,
                   okLoads, calls, writes>>

\* Config::load, line 111, AuthConfig::load on a SharedSecretConfig.
Load111Secret ==
    /\ pc = "L111"
    /\ config.auth.variant = "SharedSecretConfig"
    /\ config' = [config EXCEPT !.auth = SharedSecretConfig_load(config.auth)]
    /\ trace' = Append(trace, "auth")
    /\ pc' = "L112"
    /\ UNCHANGED <<doc, parsed, fs, ret, pre, loaded, opens, reads, decodes,
                   okLoads, calls, writes>>

\* Config::load, line 111, AuthConfig::load on a CertificateAuthorityConfig:
\* CertificateAuthorityConfig::load, line 243.
Load243 ==
    /\ config.auth.variant = "CertificateAuthorityConfig"
    /\ LoadStatement("signature", "L111", "auth.signature", "L244")

\* CertificateAuthorityConfig::load, line 244.
Load244 ==
    /\ pc = "L244"
    /\ LoadStatement("ca", "L244", "auth.ca", "L112")

\* Config::load, lines 112 to 114.
Load112 ==
    /\ pc = "L112"
    /\ LoadStatement("key", "L112", "key", "idle")

\* The environment creates, replaces or removes a file.
Write(p, c) ==
    /\ pc # "aborted"
    /\ writes < MaxWrites
    /\ p \in DOMAIN fs
    /\ c # fs[p]
    /\ fs' = [fs EXCEPT ![p] = c]
    /\ writes' = writes + 1
    /\ UNCHANGED <<doc, parsed, config, pc, ret, trace, pre, loaded, opens,
                   reads, decodes, okLoads, calls>>

Next ==
    \/ \E i \in AllInsts : CallGetValue(i)
    \/ \E i \in AllInsts : CallLoad(i)
    \/ Load109
    \/ Load110
    \/ Load111Secret
    \/ Load243
    \/ Load244
    \/ Load112
    \/ \E p \in {KeyPath, SigPath, CaPath}, c \in Contents : Write(p, c)

Spec == Init /\ [][Next]_vars

----------------------------------------------------------------------------
(* toml::from_str on its own *)

InitParse ==
    /\ doc \in Docs
    /\ parsed = ParseErr("not parsed")
    /\ config = <<>>
    /\ fs = <<>>
    /\ pc = "unparsed"
    /\ ret = NoRet
    /\ trace = <<>>
    /\ pre = NoPre
    /\ loaded = {}
    /\ opens = Zero
    /\ reads = Zero
    /\ decodes = Zero
    /\ okLoads = 0
    /\ calls = 0
    /\ writes = 0

\* toml::from_str::<Config>(doc)
FromStr ==
    /\ pc = "unparsed"
    /\ parsed' = ParseConfig(doc)
    /\ config' = IF parsed'.ok THEN parsed'.v ELSE config
    /\ pc' = "parsed"
    /\ UNCHANGED <<doc, fs, ret, trace, pre, loaded, opens, reads, decodes,
                   okLoads, calls, writes>>

NextParse == FromStr

SpecParse == InitParse /\ [][NextParse]_vars

----------------------------------------------------------------------------
(* Properties *)

CacheOf(cfg, i) == Fov(cfg, i).cache
LoadFinished == ret.op = "Config.load" /\ ret.outcome # "running"

\* The statements of Config::load in the order the source has them.
LoadOrder(cfg) ==
    IF cfg.auth.variant = "CertificateAuthorityConfig"
    THEN <<"identity", "network_id", "auth.signature", "auth.ca", "key">>
    ELSE <<"identity", "network_id", "auth", "key">>

IsPrefix(a, b) == Len(a) <= Len(b) /\ a = SubSeq(b, 1, Len(a))

\* The file-backed secrets of a configuration.
FileInsts(cfg) == { i \in Insts(cfg) : IsFile(Fov(cfg, i)) }

\* The secrets Config::load loads before the secret i.
LoadedBefore(cfg, i) ==
    IF i = "key" THEN Insts(cfg) \ {"key"}
    ELSE IF i = "ca" THEN {"signature"}
    ELSE {}

\* C1: over the lifetime of every FileOrValue, whatever load()/get_value()
\* calls are made (a Config.load() among them), its file is read at most once.
C1_AtMostOneRead == \A i \in AllInsts : reads[i] <= 1

\* C2: once load() has returned Ok on a FileOrValue, no later step changes
\* its cache, opens its file or decodes its text, and every later
\* get_value() on it returns Ok with exactly the cached bytes, whatever
\* happened to the file since.
C2_LoadedValueIsStable ==
    [][\A i \in loaded :
          /\ IsSome(CacheOf(config, i))
          /\ CacheOf(config', i) = CacheOf(config, i)
          /\ opens'[i] = opens[i]
          /\ reads'[i] = reads[i]
          /\ decodes'[i] = decodes[i]
          /\ (calls' # calls /\ ret'.op = "get_value" /\ ret'.inst = i)
                => (ret'.outcome = "Ok" /\ ret'.val = Unwrap(CacheOf(config, i)))
      ]_vars

\* C2 witness: get_value() has just answered from the cache of a loaded,
\* file-backed secret whose file no longer holds the cached bytes.
C2_Witness ==
    /\ ret.op = "get_value"
    /\ ret.at = writes
    /\ ret.inst \in loaded
    /\ IsFile(Fov(config, ret.inst))
    /\ fs[Fov(config, ret.inst).file] # FileOf(ret.val)
    /\ ret.val = Unwrap(CacheOf(config, ret.inst))

\* C4: Config.load() runs its steps in the order identity, network id, auth
\* (signature before ca), key, and a load that does not succeed ends by
\* returning the error of its first failing step.
C4_FirstErrorReturned ==
    ret.op = "Config.load" =>
        /\ IsPrefix(trace, LoadOrder(config))
        /\ ret.outcome = "Ok" => trace = LoadOrder(config)
        /\ ret.outcome \notin {"Ok", "running"} =>
              /\ ret.outcome = "Err"
              /\ pc = "idle"

\* C5: a Config.load() whose file-backed key cannot be read ends by
\* returning IoError to its caller.
C5_UnreadableKeyReturnsIoError ==
    (/\ LoadFinished
     /\ ret.inst = "key"
     /\ IsFile(config.key)
     /\ ret.outcome # "Ok")
        => (ret.outcome = "Err" /\ ret.err = "IoError" /\ pc # "aborted")

\* C7: a get_value() or load() on a FileOrValue that does not succeed
\* returns an error value (IoError for a File, DecodeError for a Value),
\* leaves the cache unset and does not end the program.
C7_ErrorsAreReturned ==
    (ret.op \in {"get_value", "load"} /\ ret.outcome # "Ok")
        => /\ ret.outcome = "Err"
           /\ ret.err = IF IsFile(Fov(config, ret.inst)) THEN "IoError"
                        ELSE "DecodeError"
           /\ CacheOf(config, ret.inst) = None
           /\ pc # "aborted"

\* C10: after a successful Config.load() the cached public key is the one
\* of the key bytes held in the key's cache.
C10_PublicKeyMatchesKey ==
    okLoads >= 1 =>
        /\ IsSome(config.key.cache)
        /\ config.public_key
              = FromSeedUnchecked(Unwrap(config.key.cache)).public_key

\* C6 as claimed: a Config.load() that succeeds after an earlier successful
\* one has read every file-backed secret again, and a secret whose file is
\* readable and was not touched during that load is cached with the file's
\* present contents.
C6_SecondLoadRereads ==
    (LoadFinished /\ ret.outcome = "Ok" /\ pre.okLoads >= 1) =>
        \A i \in FileInsts(config) :
            /\ reads[i] > pre.reads[i]
            /\ (fs = pre.fs /\ fs[Fov(config, i).file].kind = "file")
                  => CacheOf(config, i) = Some(fs[Fov(config, i).file].bytes)

\* C6 as amended: a Config.load() begun after an earlier successful one
\* opens and reads no file and leaves every secret's cache and the cached
\* network id holding the bytes the earlier load stored, whatever the files
\* hold by now; when it returns Ok the public key is the one of the cached
\* key bytes.
C6_SecondLoadKeepsCaches ==
    (ret.op = "Config.load" /\ pre.okLoads >= 1) =>
        /\ opens = pre.opens
        /\ reads = pre.reads
        /\ \A i \in Insts(config) :
              IsSome(CacheOf(config, i))
              /\ CacheOf(config, i) = CacheOf(pre.config, i)
        /\ config.cached_network_id = pre.config.cached_network_id
        /\ config.auth = pre.config.auth
        /\ ret.outcome = "Ok" =>
              config.public_key
                 = FromSeedUnchecked(Unwrap(config.key.cache)).public_key

\* C6 witness: a second Config.load() has returned Ok although the key file,
\* unchanged since that load began, holds other bytes than the key's cache.
C6_Witness ==
    /\ LoadFinished
    /\ ret.outcome = "Ok"
    /\ pre.okLoads >= 1
    /\ IsFile(config.key)
    /\ fs = pre.fs
    /\ fs[config.key.file].kind = "file"
    /\ CacheOf(config, "key") # Some(fs[config.key.file].bytes)

\* C8 as claimed: when Config.load() returns an error, every cache is as it
\* was before the call.
C8_FailedLoadLeavesNothing ==
    (LoadFinished /\ ret.outcome = "Err") => config = pre.config

\* C8 as amended: when Config.load() returns an error it has stopped at its
\* first failing step and undone nothing: the public key and the cached
\* network id written by the first two steps stay filled, the secrets loaded
\* before the failing one stay cached, the failing secret's cache is unset,
\* and the secrets after it have the cache they had before the call.
C8_FailedLoadStopsAtFirstError ==
    (LoadFinished /\ ret.outcome = "Err") =>
        /\ ret.inst \in Insts(config)
        /\ config.public_key # <<>>
        /\ config.cached_network_id = Some(IntoBytes(config.network_id))
        /\ CacheOf(config, ret.inst) = None
        /\ \A i \in LoadedBefore(config, ret.inst) : IsSome(CacheOf(config, i))
        /\ \A i \in Insts(config) \ (LoadedBefore(config, ret.inst) \cup {ret.inst}) :
              CacheOf(config, i) = CacheOf(pre.config, i)
        /\ trace[Len(trace)] \in {ret.inst, "auth." \o ret.inst}

\* C8 witness: Config.load() has returned the error of `ca` with the
\* signature, the public key and the network id cached by the same call.
C8_Witness ==
    /\ LoadFinished
    /\ ret.outcome = "Err"
    /\ ret.inst = "ca"
    /\ CacheOf(pre.config, "signature") = None
    /\ IsSome(CacheOf(config, "signature"))
    /\ pre.config.public_key = <<>>
    /\ config.public_key # <<>>

----------------------------------------------------------------------------
(* Properties of toml::from_str *)

GoodAuth == AuthDoc(<<StrV(Help)>>, <<>>, <<>>)

\* The document parses once its auth section is replaced by a good one.
RestParses(d) == ParseConfig(TblV(("auth" :> GoodAuth) @@ d.f)).ok

\* Every field of the auth section that is present has the type its
\* variant asks for.
AuthWellTyped(a) ==
    /\ Has(a, "secret") => a.f.secret.t = "str"
    /\ Has(a, "signature") => ParseFileOrValue(a.f.signature).ok
    /\ Has(a, "ca") => ParseFileOrValue(a.f.ca).ok

AuthResult == IF parsed.ok THEN parsed.v.auth.variant ELSE "rejected"

\* C3: the auth section is classified by the fields present: `secret` alone
\* gives SharedSecretConfig, `signature` and `ca` alone give
\* CertificateAuthorityConfig, and a section with neither shape or with both
\* is rejected.
C3_AuthClassification ==
    (/\ pc = "parsed"
     /\ Has(doc, "auth")
     /\ AuthWellTyped(doc.f.auth)
     /\ RestParses(doc))
        => LET a == doc.f.auth
               secret == Has(a, "secret")
               signature == Has(a, "signature")
               ca == Has(a, "ca")
           IN  /\ (secret /\ ~signature /\ ~ca)
                     => AuthResult = "SharedSecretConfig"
               /\ (~secret /\ signature /\ ca)
                     => AuthResult = "CertificateAuthorityConfig"
               /\ (~secret /\ ~(signature /\ ca)) => AuthResult = "rejected"
               /\ (secret /\ signature /\ ca) => AuthResult = "rejected"

Declared == IF Has(doc, "network") THEN doc.f.network.a ELSE <<>>

\* C9: a document that parses gives one `networks` entry per declared
\* network[] entry, in the declared order, each of the variant its `type`
\* names and with the fields declared, and an explicit server.threads is
\* the value parsed.
C9_NetworksAndThreads ==
    (pc = "parsed" /\ parsed.ok) =>
        /\ Len(parsed.v.networks) = Len(Declared)
        /\ \A i \in 1..Len(Declared) :
              LET d == Declared[i]
                  n == parsed.v.networks[i]
              IN  /\ d.f.type.s = <<"d","n","s">>
                        => (n.variant = "DnsNetworkConfig" /\ n.domain = d.f.domain.s)
                  /\ d.f.type.s = <<"p","e","e","r","s">>
                        => /\ n.variant = "PeersNetworkConfig"
                           /\ Len(n.peers) = IF Has(d, "peers")
                                             THEN Len(d.f.peers.a) ELSE 0
                  /\ d.f.type.s \in {<<"d","n","s">>, <<"p","e","e","r","s">>}
        /\ (Has(doc, "server") /\ Has(doc.f.server, "threads"))
              => parsed.v.server.threads = doc.f.server.f.threads.n

\* C9 witness: the document of test_parsing's shape has parsed: a dns entry
\* followed by a peers entry, and threads = 4.
C9_Witness ==
    /\ pc = "parsed"
    /\ parsed.ok
    /\ Len(Declared) = 2
    /\ parsed.v.networks[1].variant = "DnsNetworkConfig"
    /\ parsed.v.networks[2].variant = "PeersNetworkConfig"
    /\ Has(doc, "server") /\ Has(doc.f.server, "threads")
    /\ parsed.v.server.threads = 4
    /\ parsed.v.server.threads # default_threads

====
